---- MODULE Spec2Model ----
(***************************************************************************)
(* The action-expression engine of coc-explorer: ActionSource.doActionExp  *)
(* (the interpreter of action expressions) and ActionSource.doAction (the  *)
(* invoker of one registered action), src/actions/actionSource.ts.         *)
(*                                                                         *)
(* Every caller of doActionExp / doAction is a run.  A run is a chain of   *)
(* async invocations, kept as a stack of frames; a frame's pc is the await *)
(* it is suspended at.  Runs interleave at every step.  The callbacks, the *)
(* reload and the render are the environment: each settles with success    *)
(* or with a failure.                                                      *)
(***************************************************************************)
EXTENDS Integers, Sequences, FiniteSets, TLC

\* ------------------------------------------------------------------ bounds
NumRuns == 2
NumItems == 2
MaxLen == 2
NumCalls == 3

Runs == 1..NumRuns
Items == 1..NumItems
Sources == {"file", "buffer"}
Calls == 1..NumCalls
Directories == {"/repo", "/repo/src"}

\* ------------------------------------------------------- action expressions
\* ActionExp = Action | ActionExp[]; actionExp[k] beyond the end is undefined.
Leaf(n, a) == [t |-> "leaf", name |-> n, args |-> a, els |-> <<>>]
List(s) == [t |-> "list", name |-> "", args |-> <<>>, els |-> s]
Undefined == [t |-> "undefined", name |-> "", args |-> <<>>, els |-> <<>>]

IsArray(e) == e.t = "list"

\* actionExp[k], k counted from 0 as in the source
At(e, k) == IF k >= 0 /\ k < Len(e.els) THEN e.els[k + 1] ELSE Undefined

waitActionName == "wait"

\* ------------------------------------------------------------ collaborators
\* conditionActionRules[name]: the routers and their per-node filter
RuleNames == {"expandable?", "type?"}

NodeType(n) == IF n % 2 = 1 THEN "directory" ELSE "file"

RuleFilter(name, n, args) ==
  IF name = "expandable?" THEN NodeType(n) = "directory"
  ELSE Len(args) > 0 /\ args[1] = NodeType(n)

\* partition(nodes, (node) => rule.filter(source, node, args)): the nodes that
\* pass the filter of the rule and the nodes that fail it, each group in order
Partition(nodes, rule, args) ==
  << SelectSeq(nodes, LAMBDA n : RuleFilter(rule, n, args)),
     SelectSeq(nodes, LAMBDA n : ~RuleFilter(rule, n, args)) >>

RECURSIVE Uniq(_)
\* uniq(list): the first occurrence of every element, in order
Uniq(s) ==
  IF s = <<>> THEN <<>>
  ELSE LET r == Uniq(SubSeq(s, 1, Len(s) - 1))
           x == s[Len(s)]
       IN IF \E k \in 1..Len(r) : r[k] = x THEN r ELSE Append(r, x)

Range(s) == { s[k] : k \in 1..Len(s) }

\* The local table of an ActionSource (this.actions) and the global table
\* (this.global.actions): name -> options {select, render, reload}; refresh
\* declares no select option ("undefined").
Opt(s, rn, rl) == [select |-> s, render |-> rn, reload |-> rl]

LocalActions ==
  [ n \in {"delete", "open", "copyFile", "toggleHidden", "refresh"} |->
      CASE n = "delete"       -> Opt("true", FALSE, TRUE)
        [] n = "open"         -> Opt("false", FALSE, FALSE)
        [] n = "copyFile"     -> Opt("keep", TRUE, FALSE)
        [] n = "toggleHidden" -> Opt("visual", FALSE, FALSE)
        [] n = "refresh"      -> Opt("undefined", TRUE, TRUE) ]

GlobalActions ==
  [ n \in {"open", "quit"} |->
      CASE n = "open" -> Opt("visual", TRUE, FALSE)
        [] n = "quit" -> Opt("true", TRUE, FALSE) ]

NoAction == Opt("", FALSE, FALSE)

\* registeredActions(): { ...this.global.actions, ...this.actions }
registeredActions ==
  [ n \in DOMAIN GlobalActions \cup DOMAIN LocalActions |->
      IF n \in DOMAIN LocalActions THEN LocalActions[n] ELSE GlobalActions[n] ]

\* faulty variant: the global table is looked up first
registeredActionGlobalFirst(name) ==
  IF name \in DOMAIN GlobalActions THEN GlobalActions[name]
  ELSE IF name \in DOMAIN LocalActions THEN LocalActions[name]
  ELSE NoAction

\* faulty variant: a name in neither table resolves to an action all the same
registeredActionAlways(name) ==
  IF name \in DOMAIN LocalActions THEN LocalActions[name]
  ELSE IF name \in DOMAIN GlobalActions THEN GlobalActions[name]
  ELSE Opt("false", TRUE, FALSE)

\* registeredAction(name): this.actions[name] || this.global.actions[name]
registeredAction(name) ==
  IF name \in DOMAIN LocalActions THEN LocalActions[name]
  ELSE IF name \in DOMAIN GlobalActions THEN GlobalActions[name]
  ELSE NoAction

Resolved(name) == registeredAction(name) # NoAction

\* ------------------------------------------------------------------- state
VARIABLES
  stack,          \* run -> the run's chain of suspended invocations, the innermost last
  status,         \* run -> "idle", "running" or "done"
  thrown,         \* run -> the error travelling up the run's chain (<<>>: none)
  result,         \* run -> what the caller observed: <<>> yet nothing, <<"ok">>, or the error
  call,           \* run -> the call the caller made
  selectedNodes,  \* source -> source.selectedNodes, in insertion order
  mutex,          \* global.waitActionMutex: the runs that asked for it, the holder first
  trace,          \* run -> what the run did, in order (history)
  reloadDebounceArgs,  \* GitBinder.reloadDebounceArgs: the pending sources and directories
  debounce,       \* reloadDebounceChecker: the call whose timer runs, 0 when none
  gitPc,          \* call of reloadDebounce -> where it is
  requested,      \* the (source, directory) pairs ever added to the pending sets (history)
  reloaded        \* the (source, directory) pairs ever passed to one reload (history)

actionVars == << stack, status, thrown, result, call, selectedNodes, mutex, trace >>
gitVars == << reloadDebounceArgs, debounce, gitPc, requested, reloaded >>
vars == << stack, status, thrown, result, call, selectedNodes, mutex, trace,
           reloadDebounceArgs, debounce, gitPc, requested, reloaded >>

NoError == <<>>
Ok == <<"ok">>
TypeError == <<"TypeError", "">>
CallbackError(name) == <<"callback", name>>
PostEffectError(name) == <<"post", name>>

\* One invocation of doActionExp or doAction: its parameters, its locals and
\* the await it is suspended at.
\*   doActionExp: "run" (lines 58-60, at index i), "await63", "await71",
\*                "await86", "line88", "await89", "await92", "await96",
\*                "finally" (line 101)
\*   doAction:    "run" (line 111), "callback" (125/132/139/147),
\*                "reload" (158), "render" (160)
Frame(fn, exp, nodes, mode, isSub, name, args) ==
  [ fn |-> fn, exp |-> exp, nodes |-> nodes, mode |-> mode, isSubAction |-> isSub,
    name |-> name, args |-> args,
    i |-> 0, waitRelease |-> FALSE, trueNodes |-> <<>>, falseNodes |-> <<>>,
    error |-> NoError, pc |-> "run" ]

ExpFrame(exp, nodes, mode, isSub) ==
  Frame("doActionExp", exp, nodes, mode, isSub, "", <<>>)

ActFrame(name, nodes, args, mode) ==
  Frame("doAction", Undefined, nodes, mode, FALSE, name, args)

\* One entry of a run's history: what happened, at which nesting depth, with
\* which action name, node list, arguments and mode; sel is the source's
\* selection at that moment, err the error involved.
Event(ev, depth, name, nodes, args, mode, sel, err) ==
  [ ev |-> ev, depth |-> depth, name |-> name, nodes |-> nodes, args |-> args,
    mode |-> mode, sel |-> sel, err |-> err ]

Mark(ev, depth, nodes) == Event(ev, depth, "", nodes, <<>>, "", <<>>, NoError)

\* the entry of a branch of a router: which branch, its group of nodes, and
\* whether the element taken as the branch exists
BranchMark(ev, depth, nodes, branch) ==
  Event(ev, depth, IF branch.t = "undefined" THEN "undefined" ELSE "", nodes, <<>>, "",
        <<>>, NoError)

Top(r) == stack[r][Len(stack[r])]
Depth(r) == Len(stack[r])
Running(r) == status[r] = "running" /\ Depth(r) > 0
SetTop(r, f) == [stack EXCEPT ![r] = SubSeq(@, 1, Len(@) - 1) \o <<f>>]
Push(r, f, g) == [stack EXCEPT ![r] = SubSeq(@, 1, Len(@) - 1) \o <<f, g>>]
Log(r, evs) == [trace EXCEPT ![r] = @ \o evs]

\* faulty variant: the loop steps over the element after the awaited one
ResumedSkipping(f) ==
  CASE f.pc \in {"await63", "await89", "await92"} -> [f EXCEPT !.i = @ + 2, !.pc = "run"]
    [] f.pc = "await86" -> [f EXCEPT !.pc = "line88"]
    [] f.pc = "await96" -> [f EXCEPT !.pc = "finally"]
    [] OTHER -> f

\* The caller's frame once the call it awaits has resolved: the loop goes on
\* with the next element (line 59, i++), line 88 follows line 86, the finally
\* block follows line 96.
Resumed(f) ==
  CASE f.pc \in {"await63", "await89", "await92"} -> [f EXCEPT !.i = @ + 1, !.pc = "run"]
    [] f.pc = "await86" -> [f EXCEPT !.pc = "line88"]
    [] f.pc = "await96" -> [f EXCEPT !.pc = "finally"]
    [] OTHER -> f

\* The innermost invocation of run r ends, normally (err = NoError) or by
\* throwing err: its caller resumes or gets the error; with no caller left,
\* the run's caller observes the outcome.
Leave(r, err) ==
  LET rest == SubSeq(stack[r], 1, Depth(r) - 1) IN
  IF rest = <<>>
  THEN /\ stack' = [stack EXCEPT ![r] = <<>>]
       /\ status' = [status EXCEPT ![r] = "done"]
       /\ result' = [result EXCEPT ![r] = IF err = NoError THEN Ok ELSE err]
       /\ thrown' = [thrown EXCEPT ![r] = NoError]
  ELSE /\ stack' = [stack EXCEPT ![r] =
                      IF err = NoError
                      THEN SubSeq(rest, 1, Len(rest) - 1) \o <<Resumed(rest[Len(rest)])>>
                      ELSE rest]
       /\ thrown' = [thrown EXCEPT ![r] = err]
       /\ UNCHANGED << status, result >>

\* -------------------------------------------------------------- doActionExp
Awaits == {"await63", "await86", "await89", "await92", "await96"}

InExp(r) == Running(r) /\ Top(r).fn = "doActionExp" /\ thrown[r] = NoError

AtElement(r) ==
  InExp(r) /\ Top(r).pc = "run" /\ IsArray(Top(r).exp) /\ Top(r).i < Len(Top(r).exp.els)

\* faulty variant of line 67: every action is taken for the marker
IsWaitAny(action) == TRUE

\* line 67: action.name === waitAction.name
IsWait(action) == action.name = waitActionName

\* faulty variant of line 68: the sub-action test inverted, so that the
\* top-level invocation passes its marker without the mutex
SkipWaitInverted(f) == f.waitRelease \/ ~f.isSubAction

\* faulty variant of line 68: without the test of waitRelease a second marker
\* asks for the mutex again
SkipWaitSubOnly(f) == f.isSubAction

\* line 68: a marker is passed over when this invocation holds the mutex
\* already or is a sub-action
SkipWait(f) == f.waitRelease \/ f.isSubAction

\* faulty variant of lines 86 and 89: a branch is run with the nodes of the
\* list instead of its group
SubFrameAllNodes(f, exp, nodes) == ExpFrame(exp, f.nodes, f.mode, TRUE)

\* lines 53-56: the options of every nested invocation
SubFrame(f, exp, nodes) == ExpFrame(exp, nodes, f.mode, TRUE)

\* faulty variant of line 96: the mode is not handed on
LeafCallDefaultMode(f) == ActFrame(f.exp.name, f.nodes, f.exp.args, "n")

\* line 96: this.doAction(actionExp.name, nodes, actionExp.args, mode)
LeafCall(f) == ActFrame(f.exp.name, f.nodes, f.exp.args, f.mode)

\* faulty variant of lines 85 and 88: a branch runs whatever its group
RunsBranchAlways(nodes) == TRUE

\* lines 85 and 88: a branch runs when its group of nodes is not empty
RunsBranch(nodes) == Len(nodes) > 0

\* faulty variant of line 96: undefined is taken for an action without name
ThrowsTypeErrorNever(exp) == FALSE

\* line 96: actionExp.name throws a TypeError when actionExp is undefined
ThrowsTypeError(exp) == exp = Undefined

\* lines 95-97: the expression is one action; line 96 reads actionExp.name,
\* which throws a TypeError on undefined
ExpLeaf(r) ==
  /\ InExp(r) /\ Top(r).pc = "run" /\ ~IsArray(Top(r).exp)
  /\ LET f == Top(r) IN
     IF ThrowsTypeError(f.exp)
     THEN /\ stack' = SetTop(r, [f EXCEPT !.pc = "finally"])
          /\ thrown' = [thrown EXCEPT ![r] = TypeError]
     ELSE /\ stack' = Push(r, [f EXCEPT !.pc = "await96"], LeafCall(f))
          /\ UNCHANGED thrown
  /\ UNCHANGED << status, result, call, selectedNodes, mutex, trace >>
  /\ UNCHANGED gitVars

\* lines 62-65: the element is a list
LoopNested(r) ==
  /\ AtElement(r) /\ IsArray(At(Top(r).exp, Top(r).i))
  /\ LET f == Top(r) IN
     stack' = Push(r, [f EXCEPT !.pc = "await63"], SubFrame(f, At(f.exp, f.i), f.nodes))
  /\ UNCHANGED << status, thrown, result, call, selectedNodes, mutex, trace >>
  /\ UNCHANGED gitVars

\* lines 67-73: the element is the marker
LoopWait(r) ==
  /\ AtElement(r) /\ ~IsArray(At(Top(r).exp, Top(r).i))
  /\ IsWait(At(Top(r).exp, Top(r).i))
  /\ LET f == Top(r) IN
     IF SkipWait(f)
     THEN /\ stack' = SetTop(r, [f EXCEPT !.i = @ + 1])
          /\ UNCHANGED mutex
     ELSE /\ stack' = SetTop(r, [f EXCEPT !.pc = "await71"])
          /\ mutex' = Append(mutex, r)
  /\ UNCHANGED << status, thrown, result, call, selectedNodes, trace >>
  /\ UNCHANGED gitVars

\* line 71: acquire() resolves once every earlier holder has released
Acquired(r) ==
  /\ InExp(r) /\ Top(r).pc = "await71"
  /\ mutex # <<>> /\ Head(mutex) = r
  /\ stack' = SetTop(r, [Top(r) EXCEPT !.waitRelease = TRUE, !.i = @ + 1, !.pc = "run"])
  /\ trace' = Log(r, <<Mark("acquire", Depth(r), <<>>)>>)
  /\ UNCHANGED << status, thrown, result, call, selectedNodes, mutex >>
  /\ UNCHANGED gitVars

\* faulty variant of line 84: one element is taken for the two branches
BranchesTakenOne(i) == i + 1

\* line 84, i += 2: the two elements after the router are taken as its branches
BranchesTaken(i) == i + 2

\* lines 75-87: the element is a condition router
LoopCondition(r) ==
  /\ AtElement(r) /\ ~IsArray(At(Top(r).exp, Top(r).i))
  /\ ~IsWait(At(Top(r).exp, Top(r).i))
  /\ At(Top(r).exp, Top(r).i).name \in RuleNames
  /\ LET f == Top(r)
         action == At(f.exp, f.i)
         parts == Partition(f.nodes, action.name, action.args)
         trueAction == At(f.exp, f.i + 1)
         g == [f EXCEPT !.trueNodes = parts[1], !.falseNodes = parts[2],
                        !.i = BranchesTaken(@)]
         cond == Event("condition", Depth(r), action.name, f.nodes, action.args,
                       f.mode, <<>>, NoError)
     IN IF RunsBranch(parts[1])
        THEN /\ stack' = Push(r, [g EXCEPT !.pc = "await86"], SubFrame(f, trueAction, parts[1]))
             /\ trace' = Log(r, <<cond, BranchMark("true", Depth(r), parts[1], trueAction)>>)
        ELSE /\ stack' = SetTop(r, [g EXCEPT !.pc = "line88"])
             /\ trace' = Log(r, <<cond>>)
  /\ UNCHANGED << status, thrown, result, call, selectedNodes, mutex >>
  /\ UNCHANGED gitVars

\* lines 88-90: the false branch; actionExp[i + 2] of line 82 is read after i += 2
CondFalse(r) ==
  /\ InExp(r) /\ Top(r).pc = "line88"
  /\ LET f == Top(r)
         falseAction == At(f.exp, f.i)
     IN IF RunsBranch(f.falseNodes)
        THEN /\ stack' = Push(r, [f EXCEPT !.pc = "await89"], SubFrame(f, falseAction, f.falseNodes))
             /\ trace' = Log(r, <<BranchMark("false", Depth(r), f.falseNodes, falseAction)>>)
        ELSE /\ stack' = SetTop(r, [f EXCEPT !.i = @ + 1, !.pc = "run"])
             /\ UNCHANGED trace
  /\ UNCHANGED << status, thrown, result, call, selectedNodes, mutex >>
  /\ UNCHANGED gitVars

\* lines 91-93: any other element
LoopLeaf(r) ==
  /\ AtElement(r) /\ ~IsArray(At(Top(r).exp, Top(r).i))
  /\ ~IsWait(At(Top(r).exp, Top(r).i))
  /\ At(Top(r).exp, Top(r).i).name \notin RuleNames
  /\ LET f == Top(r) IN
     stack' = Push(r, [f EXCEPT !.pc = "await92"], SubFrame(f, At(f.exp, f.i), f.nodes))
  /\ UNCHANGED << status, thrown, result, call, selectedNodes, mutex, trace >>
  /\ UNCHANGED gitVars

\* the mutex after run r calls the release function it was given
Release(q, r) == IF q # <<>> /\ Head(q) = r THEN Tail(q) ELSE q

\* faulty variant: the finally block does not call waitRelease
CallWaitReleaseNever(q, r, waitRelease) == q

\* faulty variant: the release is not in a finally block, an invocation that
\* ends with an error keeps the mutex
CallWaitReleaseOnSuccess(q, r, waitRelease) ==
  IF waitRelease /\ thrown[r] = NoError THEN Release(q, r) ELSE q

\* line 101, waitRelease?.(): the release function is called if the invocation
\* holds one
CallWaitRelease(q, r, waitRelease) == IF waitRelease THEN Release(q, r) ELSE q

\* lines 98-103: the try block is left, by the end of the loop, by the return
\* of doAction or by an error of a nested invocation; the finally block calls
\* waitRelease?.() and the invocation settles as the try block ended
ExpFinally(r) ==
  /\ Running(r) /\ Top(r).fn = "doActionExp"
  /\ \/ thrown[r] = NoError /\ Top(r).pc = "run" /\ IsArray(Top(r).exp)
          /\ Top(r).i >= Len(Top(r).exp.els)
     \/ Top(r).pc = "finally"
     \/ thrown[r] # NoError /\ Top(r).pc \in Awaits
  /\ mutex' = CallWaitRelease(mutex, r, Top(r).waitRelease)
  /\ IF Top(r).waitRelease
     THEN trace' = Log(r, <<Mark("release", Depth(r), <<>>)>>)
     ELSE UNCHANGED trace
  /\ Leave(r, thrown[r])
  /\ UNCHANGED << call, selectedNodes >>
  /\ UNCHANGED gitVars

\* ----------------------------------------------------------------- doAction
\* finalNodes[0] of an empty list
UndefinedNode == 0

\* line 116, select = false: the select option, false when none is declared
SelectOption(options) == IF options.select = "undefined" THEN "false" ELSE options.select

\* faulty variant: without select the callback gets all the given nodes
CallbackNodesAllGiven(select, finalNodes, selected) ==
  CASE select = "true"   -> Uniq(finalNodes \o selected)
    [] select = "false"  -> finalNodes
    [] select = "visual" -> finalNodes
    [] select = "keep"   -> Uniq(finalNodes \o selected)

\* faulty variant: 'keep' hands over the given nodes without the selection
CallbackNodesKeepGiven(select, finalNodes, selected) ==
  CASE select = "true"   -> Uniq(finalNodes \o selected)
    [] select = "false"  -> << IF finalNodes = <<>> THEN UndefinedNode ELSE finalNodes[1] >>
    [] select = "visual" -> finalNodes
    [] select = "keep"   -> finalNodes

\* lines 121-153: the nodes handed to the callback under each select option
CallbackNodes(select, finalNodes, selected) ==
  CASE select = "true"   -> Uniq(finalNodes \o selected)
    [] select = "false"  -> << IF finalNodes = <<>> THEN UndefinedNode ELSE finalNodes[1] >>
    [] select = "visual" -> finalNodes
    [] select = "keep"   -> Uniq(finalNodes \o selected)

\* faulty variant of line 123: the selection is never cleared
SelectedAfterKept(select, selected) == selected

\* line 123: source.selectedNodes after the select option has been applied
SelectedAfter(select, selected) == IF select = "true" THEN <<>> ELSE selected

\* faulty variant of line 124: 'keep' requests the re-render as 'select' does
RenderRequestsKeep(select, allNodes) ==
  IF select \in {"true", "keep"} THEN <<"requestRenderNodes", allNodes>> ELSE <<>>

\* line 124: the nodes whose re-render is requested, if any
RenderRequests(select, allNodes) ==
  IF select = "true" THEN <<"requestRenderNodes", allNodes>> ELSE <<>>

\* faulty variant of lines 157-161: render takes priority over reload
PostEffectRenderFirst(options) ==
  IF options.render THEN "render" ELSE IF options.reload THEN "reload" ELSE "none"

\* lines 157-161: the effect that follows the callback
PostEffect(options) ==
  IF options.reload THEN "reload" ELSE IF options.render THEN "render" ELSE "none"

InAct(r) == Running(r) /\ Top(r).fn = "doAction" /\ thrown[r] = NoError

\* lines 111-153: resolve the action, apply its select option, call the callback
DoActionCall(r) ==
  /\ InAct(r) /\ Top(r).pc = "run"
  /\ LET f == Top(r)
         src == call[r].source
         sel == selectedNodes[src]
         action == registeredAction(f.name)
         d == Depth(r)
         invoke == Event("invoke", d, f.name, f.nodes, f.args, f.mode, sel, NoError)
     IN IF action = NoAction
        THEN /\ trace' = Log(r, <<invoke,
                    Event("return", d, f.name, <<>>, <<>>, "", sel, NoError)>>)
             /\ Leave(r, NoError)
             /\ UNCHANGED selectedNodes
        ELSE LET select == SelectOption(action)
                 nodes == CallbackNodes(select, f.nodes, sel)
                 req == RenderRequests(select, nodes)
             IN /\ selectedNodes' = [selectedNodes EXCEPT ![src] = SelectedAfter(select, @)]
                /\ trace' = Log(r, <<invoke>>
                     \o (IF req = <<>> THEN <<>> ELSE <<Mark(req[1], d, req[2])>>)
                     \o <<Event("callback", d, f.name, nodes, f.args, f.mode,
                                selectedNodes'[src], NoError)>>)
                /\ stack' = SetTop(r, [f EXCEPT !.pc = "callback"])
                /\ UNCHANGED << status, thrown, result >>
  /\ UNCHANGED << call, mutex >>
  /\ UNCHANGED gitVars

\* lines 154-162: the callback settles; the finally block starts the post-effect
\* or, with none declared, the invocation settles as the callback did
CallbackSettles(r) ==
  /\ InAct(r) /\ Top(r).pc = "callback"
  /\ \E ok \in BOOLEAN :
     LET f == Top(r)
         d == Depth(r)
         err == IF ok THEN NoError ELSE CallbackError(f.name)
         post == PostEffect(registeredAction(f.name))
         settled == Event("settled", d, f.name, <<>>, <<>>, "", <<>>, err)
     IN IF post = "none"
        THEN /\ trace' = Log(r, <<settled,
                    Event("return", d, f.name, <<>>, <<>>, "",
                          selectedNodes[call[r].source], err)>>)
             /\ Leave(r, err)
        ELSE /\ trace' = Log(r, <<settled, Mark(post, d, <<>>)>>)
             /\ stack' = SetTop(r, [f EXCEPT !.pc = post, !.error = err])
             /\ UNCHANGED << status, thrown, result >>
  /\ UNCHANGED << call, selectedNodes, mutex >>
  /\ UNCHANGED gitVars

\* faulty variant: the finally block ends normally when the post-effect does,
\* the error of the try block is lost
OutcomeSwallowed(pending, postError) == postError

\* the error doAction ends with: an error of the awaited post-effect leaves the
\* finally block in place of the error the try block ended with
Outcome(pending, postError) == IF postError # NoError THEN postError ELSE pending

\* lines 158/160: source.load or view.render settles
PostEffectSettles(r) ==
  /\ InAct(r) /\ Top(r).pc \in {"reload", "render"}
  /\ \E ok \in BOOLEAN :
     LET f == Top(r)
         d == Depth(r)
         perr == IF ok THEN NoError ELSE PostEffectError(f.name)
         err == Outcome(f.error, perr)
     IN /\ trace' = Log(r, <<Event("postSettled", d, f.name, <<>>, <<>>, "", <<>>, perr),
                   Event("return", d, f.name, <<>>, <<>>, "",
                         selectedNodes[call[r].source], err)>>)
        /\ Leave(r, err)
  /\ UNCHANGED << call, selectedNodes, mutex >>
  /\ UNCHANGED gitVars

\* ------------------------------------------------------------------ callers
RECURSIVE ListsUpTo(_, _)
\* the lists over S of length at most n
ListsUpTo(S, n) ==
  IF n = 0 THEN { <<>> }
  ELSE LET shorter == ListsUpTo(S, n - 1)
       IN shorter \cup { Append(s, x) : s \in shorter, x \in S }

NodeLists == ListsUpTo(Items, MaxLen)

\* a selection: distinct nodes (here in ascending order of insertion)
Selections ==
  { s \in ListsUpTo(Items, NumItems) : \A j, k \in 1..Len(s) : j < k => s[j] < s[k] }

\* options.mode as the caller gives it
ModeOptions == {"undefined", "v"}

delete == Leaf("delete", <<>>)
open == Leaf("open", <<"split">>)
copyFile == Leaf("copyFile", <<>>)
toggleHidden == Leaf("toggleHidden", <<>>)
refresh == Leaf("refresh", <<>>)
quit == Leaf("quit", <<>>)
unknown == Leaf("unknown", <<>>)
wait == Leaf(waitActionName, <<>>)
expandable == Leaf("expandable?", <<>>)
isFile == Leaf("type?", <<"file">>)

LeafPool ==
  { delete, open, copyFile, toggleHidden, refresh, quit, unknown, wait, expandable, isFile }

ListPool ==
  { List(<<>>),
    List(<<delete>>),
    List(<<open, delete>>),
    List(<<copyFile, unknown, open>>),
    List(<<open, List(<<delete, copyFile>>), toggleHidden>>),
    List(<<List(<<List(<<refresh>>), quit>>), open>>),
    List(<<wait, delete>>),
    List(<<wait, open, wait, delete>>),
    List(<<wait, List(<<wait, open>>), wait, delete>>),
    List(<<List(<<wait, open>>), wait, delete>>),
    List(<<expandable, delete, open>>),
    List(<<expandable, List(<<open, copyFile>>), List(<<delete>>), quit>>),
    List(<<isFile, open, delete, copyFile>>),
    List(<<expandable, List(<<wait, open>>), wait, delete>>),
    List(<<wait, expandable, List(<<wait, delete>>), open>>),
    List(<<expandable, List(<<isFile, open, delete>>), copyFile>>),
    List(<<isFile, List(<<expandable, open, delete>>), List(<<expandable, copyFile, quit>>)>>),
    List(<<expandable, open>>),
    List(<<open, isFile>>),
    List(<<expandable, wait, delete>>),
    List(<<delete, expandable, open, copyFile, refresh>>) }

ExpPool == LeafPool \cup ListPool

\* the expressions of the concurrent callers
ConcPool ==
  { List(<<wait, delete>>),
    List(<<List(<<wait, open>>), wait, expandable, toggleHidden, open>>) }

ConcNodeLists == { <<1, 2>> }

NoCall ==
  [ entry |-> "", exp |-> Undefined, nodes |-> <<>>, mode |-> "", source |-> "",
    name |-> "", args |-> <<>> ]

\* line 49: options.mode ?? 'n'
ModeOf(option) == IF option = "undefined" THEN "n" ELSE option

\* lines 35-56: a caller calls doActionExp(exp, nodes, {mode}) on the
\* ActionSource of source src
Begin(r, exp, nodes, option, src) ==
  /\ status' = [status EXCEPT ![r] = "running"]
  /\ call' = [call EXCEPT ![r] =
       [ entry |-> "doActionExp", exp |-> exp, nodes |-> nodes, mode |-> option,
         source |-> src, name |-> "", args |-> <<>> ]]
  /\ stack' = [stack EXCEPT ![r] = << ExpFrame(exp, nodes, ModeOf(option), FALSE) >>]
  /\ UNCHANGED << thrown, result, selectedNodes, mutex, trace >>
  /\ UNCHANGED gitVars

CallDoActionExp(r) ==
  /\ status[r] = "idle"
  /\ \E exp \in ExpPool, nodes \in NodeLists, option \in ModeOptions, src \in Sources :
       Begin(r, exp, nodes, option, src)

CallDoActionExpConc(r) ==
  /\ status[r] = "idle"
  /\ \E exp \in ConcPool, nodes \in ConcNodeLists, src \in Sources :
       Begin(r, exp, nodes, "undefined", src)

\* lines 105-110: a caller calls doAction(name, nodes, args, mode)
CallDoAction(r) ==
  /\ status[r] = "idle"
  /\ \E a \in LeafPool, nodes \in NodeLists, mode \in {"n", "v"}, src \in Sources :
    /\ status' = [status EXCEPT ![r] = "running"]
    /\ call' = [call EXCEPT ![r] =
         [ entry |-> "doAction", exp |-> a, nodes |-> nodes, mode |-> mode,
           source |-> src, name |-> a.name, args |-> a.args ]]
    /\ stack' = [stack EXCEPT ![r] = << ActFrame(a.name, nodes, a.args, mode) >>]
    /\ UNCHANGED << thrown, result, selectedNodes, mutex, trace >>
  /\ UNCHANGED gitVars

\* ---------------------------------------------------- GitBinder.reloadDebounce
\* lines 400-403: no source and no directory is pending; no call is under way
GitIdle ==
  /\ reloadDebounceArgs = [sources |-> {}, directories |-> {}]
  /\ debounce = 0
  /\ gitPc = [c \in Calls |-> "idle"]
  /\ requested = {}
  /\ reloaded = {}

\* the lists of sources reloadDebounce is called with (lines 364, 374, 393)
SourceLists == SUBSET Sources \ { {} }

\* lines 409-413: call c adds its sources and its directory to the pending
\* sets and awaits the debounce checker; the timer of the checker is restarted
\* for c, the call that awaited it before, if any, gets Cancelled
ReloadDebounce(c) ==
  /\ gitPc[c] = "idle"
  /\ \E sources \in SourceLists, directory \in Directories :
       /\ reloadDebounceArgs' =
            [ sources |-> reloadDebounceArgs.sources \cup sources,
              directories |-> reloadDebounceArgs.directories \cup {directory} ]
       /\ requested' = requested \cup (sources \X {directory})
  /\ debounce' = c
  /\ gitPc' = [gitPc EXCEPT ![c] = "await413"]
  /\ UNCHANGED << reloaded, actionVars >>

\* lines 414-416: the checker gave Cancelled, the call returns
ReturnCancelled(c) ==
  /\ gitPc[c] = "await413" /\ debounce # c
  /\ gitPc' = [gitPc EXCEPT ![c] = "done"]
  /\ UNCHANGED << reloadDebounceArgs, debounce, requested, reloaded, actionVars >>

\* lines 413-420: the timer of the checker ends for call c; c copies the
\* pending sets and calls reload with the copies
CallReload(c) ==
  /\ gitPc[c] = "await413" /\ debounce = c
  /\ debounce' = 0
  /\ reloaded' = reloaded \cup (reloadDebounceArgs.sources \X reloadDebounceArgs.directories)
  /\ gitPc' = [gitPc EXCEPT ![c] = "await417"]
  /\ UNCHANGED << reloadDebounceArgs, requested, actionVars >>

\* what is pending after line 422
Cleared == [sources |-> {}, directories |-> {}]

\* lines 417-423: the reload of call c settles; when it has not failed, the
\* pending sets are cleared
ReloadSettles(c) ==
  /\ gitPc[c] = "await417"
  /\ \E ok \in BOOLEAN :
       IF ok
       THEN /\ reloadDebounceArgs' = Cleared
            /\ gitPc' = [gitPc EXCEPT ![c] = "done"]
       ELSE /\ UNCHANGED reloadDebounceArgs
            /\ gitPc' = [gitPc EXCEPT ![c] = "failed"]
  /\ UNCHANGED << debounce, requested, reloaded, actionVars >>

\* ------------------------------------------------------------ specifications
Step(r) ==
  \/ ExpLeaf(r)
  \/ LoopNested(r)
  \/ LoopWait(r)
  \/ Acquired(r)
  \/ LoopCondition(r)
  \/ CondFalse(r)
  \/ LoopLeaf(r)
  \/ ExpFinally(r)
  \/ DoActionCall(r)
  \/ CallbackSettles(r)
  \/ PostEffectSettles(r)

Idle ==
  /\ stack = [r \in Runs |-> <<>>]
  /\ status = [r \in Runs |-> "idle"]
  /\ thrown = [r \in Runs |-> NoError]
  /\ result = [r \in Runs |-> <<>>]
  /\ call = [r \in Runs |-> NoCall]
  /\ mutex = <<>>
  /\ trace = [r \in Runs |-> <<>>]
  /\ GitIdle

\* One caller at a time: the first run makes one call, of doActionExp or of
\* doAction, with any selection on the file source.
Init ==
  /\ Idle
  /\ selectedNodes \in { [src \in Sources |-> IF src = "file" THEN s ELSE <<>>] : s \in Selections }

Next == CallDoActionExp(1) \/ CallDoAction(1) \/ Step(1)

Spec == Init /\ [][Next]_vars

\* Concurrent callers: every run calls doActionExp once, at any time.
InitConc ==
  /\ Idle
  /\ selectedNodes = [src \in Sources |-> <<>>]

NextConc == \E r \in Runs : CallDoActionExpConc(r) \/ Step(r)

SpecConc == InitConc /\ [][NextConc]_vars

\* Concurrent callers under fair scheduling: every step a run can take is
\* taken in the end, so every callback, reload and render settles and the
\* mutex, a queue, serves its waiters in the order they asked.
SpecFair ==
  /\ InitConc /\ [][NextConc]_vars
  /\ \A r \in Runs : WF_vars(Step(r))

\* The calls of GitBinder.reloadDebounce, made at any time by the handlers of
\* lines 362-395: a call may arrive while an earlier one awaits its reload.
NextGit ==
  \E c \in Calls : ReloadDebounce(c) \/ ReturnCancelled(c) \/ CallReload(c) \/ ReloadSettles(c)

SpecGit == InitConc /\ [][NextGit]_vars

RECURSIVE Flatten(_)
\* the leaves of an expression, left to right, depth first
Flatten(e) ==
  IF ~IsArray(e) THEN <<e>>
  ELSE LET F[k \in 0..Len(e.els)] ==
             IF k = 0 THEN <<>> ELSE F[k - 1] \o Flatten(e.els[k])
       IN F[Len(e.els)]

\* Concurrent callers of which some never return: every run calls doActionExp
\* once, with or without a marker in its list.  The steps of a run whose
\* expression has no marker are taken as long as they can be (its callbacks,
\* reloads and renders settle); a run with a marker may stop anywhere, for
\* instance in a callback that never settles while the run holds the mutex.
FreePool ==
  { List(<<wait, delete>>),
    List(<<List(<<open>>), expandable, toggleHidden, open>>) }

CallDoActionExpFree(r) ==
  /\ status[r] = "idle"
  /\ \E exp \in FreePool, nodes \in ConcNodeLists, src \in Sources :
       Begin(r, exp, nodes, "undefined", src)

\* no leaf of the expression, at any depth, is the marker
MarkerFree(e) ==
  \A k \in 1..Len(Flatten(e)) : Flatten(e)[k].name # waitActionName

NextStuck == \E r \in Runs : CallDoActionExpFree(r) \/ Step(r)

SpecStuck ==
  /\ InitConc /\ [][NextStuck]_vars
  /\ \A r \in Runs : WF_vars(Step(r) /\ MarkerFree(call[r].exp))

\* ------------------------------------------------------- reading the history
Positions(tr, kinds) == { p \in 1..Len(tr) : tr[p].ev \in kinds }
Count(tr, kind) == Cardinality(Positions(tr, {kind}))

\* the first position after p whose event is one of kinds, 0 when there is none
NextOf(tr, p, kinds) ==
  LET later == { q \in Positions(tr, kinds) : q > p }
  IN IF later = {} THEN 0 ELSE CHOOSE q \in later : \A q2 \in later : q <= q2

Done(r) == status[r] = "done"

RECURSIVE Visited(_, _)
\* the indices the loop of lines 59-94 takes its elements from, from index k on:
\* a router takes the two elements after it as its branches
Visited(e, k) ==
  IF k >= Len(e.els) THEN {}
  ELSE {k} \cup Visited(e, IF ~IsArray(At(e, k)) /\ At(e, k).name # waitActionName
                              /\ At(e, k).name \in RuleNames
                           THEN k + 3 ELSE k + 1)

\* the markers that are elements of the list e
MarkersOf(e) ==
  { k \in Visited(e, 0) : ~IsArray(At(e, k)) /\ At(e, k).name = waitActionName }

\* run r is past a marker of its top-level list and has not returned
PastMarker(r) ==
  /\ status[r] = "running" /\ Depth(r) > 0
  /\ stack[r][1].fn = "doActionExp" /\ IsArray(stack[r][1].exp)
  /\ \E k \in MarkersOf(stack[r][1].exp) : stack[r][1].i > k

\* ----------------------------------------------------------------- C1
\* C1: of the runs that are past a marker of their top-level list and have not
\* yet returned there is at most one at any time: while one run is in the region
\* after its marker (callbacks and reload/render included), no other run
\* executes anything that follows its own marker.
C1_NoInterleaving ==
  \A r1, r2 \in Runs : PastMarker(r1) /\ PastMarker(r2) => r1 = r2

\* run 1 is in the reload of its delete, past its marker, while run 2, started
\* with [wait, delete] as well, waits at its marker
C1_Witness ==
  /\ NumRuns >= 2
  /\ call[1].exp = List(<<wait, delete>>) /\ call[2].exp = List(<<wait, delete>>)
  /\ PastMarker(1) /\ Top(1).fn = "doAction" /\ Top(1).pc = "reload"
  /\ Running(2) /\ Top(2).pc = "await71"

\* ----------------------------------------------------------------- C2
Acquires(r) == Count(trace[r], "acquire")
Releases(r) == Count(trace[r], "release")

\* the callback failures of run r, as positions of its history
Failures(r) == { p \in Positions(trace[r], {"settled"}) : trace[r][p].err # NoError }

\* the post-effect of the action whose callback failed at p failed as well
PostEffectFailedAfter(r, p) ==
  /\ p + 2 <= Len(trace[r])
  /\ trace[r][p + 2].ev = "postSettled"
  /\ trace[r][p + 2].err = PostEffectError(trace[r][p].name)

\* the barrier part of C2: a run releases only what it acquired, never more
\* than once, and has released it when the caller gets control back
C2_Barrier ==
  \A r \in Runs :
    /\ Releases(r) <= Acquires(r) /\ Acquires(r) <= 1
    /\ Done(r) => /\ Releases(r) = Acquires(r)
                  /\ \A k \in 1..Len(mutex) : mutex[k] # r
    /\ (Acquires(r) > Releases(r)) => (mutex # <<>> /\ Head(mutex) = r)

Passes(c, n) == RuleFilter(c.name, n, c.args)

\* while a branch of a router runs, it is the element right after the router
\* (true branch) or the second after it (false branch), and its nodes are
\* exactly the nodes of the list that pass (fail) the predicate, at least one
BranchFrames(r) ==
  \A k \in 1..(Depth(r) - 1) :
    LET f == stack[r][k]
        g == stack[r][k + 1]
        c == At(f.exp, f.i - 2)
    IN /\ f.pc = "await86" =>
            /\ g.exp = At(f.exp, f.i - 1)
            /\ g.nodes = SelectSeq(f.nodes, LAMBDA n : Passes(c, n))
            /\ g.nodes # <<>>
       /\ f.pc = "await89" =>
            /\ g.exp = At(f.exp, f.i)
            /\ g.nodes = SelectSeq(f.nodes, LAMBDA n : ~Passes(c, n))
            /\ g.nodes # <<>>

\* the branches recorded after the router evaluated at position p of the history
TrueRan(tr, p) ==
  p + 1 <= Len(tr) /\ tr[p + 1].ev = "true" /\ tr[p + 1].depth = tr[p].depth

FalsePos(tr, p) ==
  LET later == { q \in Positions(tr, {"false", "condition"}) :
                   q > p /\ tr[q].depth = tr[p].depth }
      q == IF later = {} THEN 0 ELSE CHOOSE x \in later : \A y \in later : x <= y
  IN IF q # 0 /\ tr[q].ev = "false" THEN q ELSE 0

\* every router a run evaluated: a branch that ran got its group; in a run that
\* ended without error, a branch ran exactly when its group was not empty
BranchesRun(r) ==
  \A p \in Positions(trace[r], {"condition"}) :
    LET tr == trace[r]
        c == Leaf(tr[p].name, tr[p].args)
        passing == SelectSeq(tr[p].nodes, LAMBDA n : Passes(c, n))
        failing == SelectSeq(tr[p].nodes, LAMBDA n : ~Passes(c, n))
        q == FalsePos(tr, p)
    IN /\ TrueRan(tr, p) => (passing # <<>> /\ tr[p + 1].nodes = passing)
       /\ q # 0 => (failing # <<>> /\ tr[q].nodes = failing)
       /\ Range(passing) \cap Range(failing) = {}
       /\ passing = <<>> => ~TrueRan(tr, p)
       /\ failing = <<>> => q = 0
       /\ (Done(r) /\ result[r] = Ok) =>
            /\ passing # <<>> => TrueRan(tr, p)
            /\ failing # <<>> => q # 0

\* C3: for a router with predicate P followed by the branches T and F, run
\* against the list I, T runs against exactly the items of I that satisfy P and
\* F against exactly those that fail it; no item goes to both, and a branch
\* whose group is empty is not run.
C3_Routing == \A r \in Runs : BranchFrames(r) /\ BranchesRun(r)

\* [expandable?, delete, open] has ended without error on a list with a
\* directory and a file: both branches ran
C3_Witness ==
  /\ Done(1) /\ result[1] = Ok
  /\ call[1].exp = List(<<expandable, delete, open>>)
  /\ call[1].nodes = <<1, 2>>
  /\ Count(trace[1], "true") = 1 /\ Count(trace[1], "false") = 1

\* on a list of directories alone the false branch is skipped
C3_WitnessSkip ==
  /\ Done(1) /\ result[1] = Ok
  /\ call[1].exp = List(<<expandable, delete, open>>)
  /\ call[1].nodes = <<1, 1>>
  /\ Count(trace[1], "true") = 1 /\ Count(trace[1], "false") = 0

\* ------------------------------------------------------------ C4, C5, C6, C7
\* the calls of doAction in the history of run r
Invokes(r) == Positions(trace[r], {"invoke"})

\* the end of the call of doAction that starts at p, 0 while it runs
ReturnOf(tr, p) == NextOf(tr, p, {"return"})

\* the callback invocation of the call of doAction that starts at p, 0 if none
CallbackOf(tr, p) ==
  LET q == NextOf(tr, p, {"callback", "return"})
  IN IF q # 0 /\ tr[q].ev = "callback" THEN q ELSE 0

\* the events of the call of doAction that starts at p
Span(tr, p) ==
  { q \in 1..Len(tr) : q >= p /\ (ReturnOf(tr, p) = 0 \/ q <= ReturnOf(tr, p)) }

NoDuplicates(s) == \A j, k \in 1..Len(s) : s[j] = s[k] => j = k

\* the union of the given nodes and the selection before the call at p
UnionAt(tr, p) == Range(tr[p].nodes) \cup Range(tr[p].sel)

SelectIs(tr, p, select) ==
  Resolved(tr[p].name) /\ registeredAction(tr[p].name).select = select

\* C4: an action with select === true gets, as its callback's nodes, the union
\* of the given nodes and the selection the source had before the call, every
\* node once; when doAction returns the selection is empty.
C4_SelectConsumes ==
  \A r \in Runs : \A p \in Invokes(r) :
    LET tr == trace[r]
        c == CallbackOf(tr, p)
        e == ReturnOf(tr, p)
    IN SelectIs(tr, p, "true") =>
         /\ c # 0
         /\ NoDuplicates(tr[c].nodes)
         /\ Range(tr[c].nodes) = UnionAt(tr, p)
         /\ tr[c].sel = <<>>
         /\ e # 0 => tr[e].sel = <<>>

\* doAction("delete", [2, 2]) on the file source with 1 and 2 selected has
\* returned: the callback got 2 and 1, the selection is empty
C4_Witness ==
  /\ Done(1) /\ call[1].entry = "doAction" /\ call[1].name = "delete"
  /\ call[1].source = "file" /\ call[1].nodes = <<2, 2>>
  /\ trace[1][1].sel = <<1, 2>>
  /\ \E c \in Positions(trace[1], {"callback"}) : trace[1][c].nodes = <<2, 1>>
  /\ selectedNodes["file"] = <<>>

\* C5 as stated: under 'keep' the callback gets the union of the given nodes
\* and the selection, and after the call the selection equals that union.
C5_AsStated ==
  \A r \in Runs : \A p \in Invokes(r) :
    LET tr == trace[r]
        c == CallbackOf(tr, p)
        e == ReturnOf(tr, p)
    IN SelectIs(tr, p, "keep") =>
         /\ c # 0 /\ Range(tr[c].nodes) = UnionAt(tr, p)
         /\ e # 0 => Range(tr[e].sel) = UnionAt(tr, p)

\* C5 amended: under 'keep' the callback gets the union of the given nodes and
\* the selection, every node once; after the call the selection is what it was
\* before the call (the given nodes are not added to it).
C5_KeepUnion ==
  \A r \in Runs : \A p \in Invokes(r) :
    LET tr == trace[r]
        c == CallbackOf(tr, p)
        e == ReturnOf(tr, p)
    IN SelectIs(tr, p, "keep") =>
         /\ c # 0
         /\ NoDuplicates(tr[c].nodes)
         /\ Range(tr[c].nodes) = UnionAt(tr, p)
         /\ e # 0 => tr[e].sel = tr[p].sel

\* doAction("copyFile", [1]) with 2 selected has returned: the callback got 1
\* and 2, the selection is still 2 alone
C5_Witness ==
  /\ Done(1) /\ call[1].entry = "doAction" /\ call[1].name = "copyFile"
  /\ call[1].source = "file" /\ call[1].nodes = <<1>>
  /\ \E c \in Positions(trace[1], {"callback"}) : trace[1][c].nodes = <<1, 2>>
  /\ selectedNodes["file"] = <<2>>

\* C6: doAction with an action whose select option is false, 'visual' or
\* 'keep', or with a name that resolves to no action, leaves the selection of
\* its source as it was, at the callback and at the return, and requests no
\* re-render of nodes.
C6_SelectionFrame ==
  \A r \in Runs : \A p \in Invokes(r) :
    LET tr == trace[r]
        c == CallbackOf(tr, p)
        e == ReturnOf(tr, p)
    IN ~SelectIs(tr, p, "true") =>
         /\ c # 0 => tr[c].sel = tr[p].sel
         /\ e # 0 => tr[e].sel = tr[p].sel
         /\ \A q \in Span(tr, p) : tr[q].ev # "requestRenderNodes"

\* doAction("open", [1, 2]) with 1 and 2 selected has returned and both are
\* still selected
C6_Witness ==
  /\ Done(1) /\ call[1].entry = "doAction" /\ call[1].name = "open"
  /\ call[1].source = "file" /\ call[1].nodes = <<1, 2>>
  /\ Count(trace[1], "callback") = 1
  /\ selectedNodes["file"] = <<1, 2>>

\* the post-effect the options of an action declare
Declared(name) ==
  LET o == registeredAction(name)
  IN IF o.reload THEN {"reload"} ELSE IF o.render THEN {"render"} ELSE {}

\* the post-effect part of C7: once the callback of a resolved action has
\* settled, the declared post-effect (reload before render) and no other is
\* run, once, whether the callback failed or not, and doAction ends only after
\* that post-effect has settled
C7_PostEffect(tr, p) ==
  LET e == ReturnOf(tr, p)
      st == NextOf(tr, p, {"settled", "return"})
      posts == { q \in Span(tr, p) : tr[q].ev \in {"reload", "render"} }
  IN /\ \A q \in posts : tr[q].ev \in Declared(tr[p].name) /\ st # 0 /\ q = st + 1
     /\ Cardinality(posts) <= 1
     /\ (st # 0 /\ tr[st].ev = "settled") =>
          /\ Cardinality(posts) = Cardinality(Declared(tr[p].name))
          /\ (e # 0 /\ posts # {}) => (tr[e - 1].ev = "postSettled" /\ e = st + 3)

Plain(e) ==
  \A k \in 1..Len(Flatten(e)) :
    /\ Flatten(e)[k].name # waitActionName
    /\ Flatten(e)[k].name \notin RuleNames

\* the calls of doAction of run r, in order
InvokeSeq(r) == SelectSeq(trace[r], LAMBDA e : e.ev = "invoke")

\* the mode a call of doActionExp runs with
ExpectedMode(r) == IF call[r].mode = "undefined" THEN "n" ELSE call[r].mode

\* C8: for a list without marker and without router (nested lists allowed),
\* doActionExp calls doAction for the leaves in left-to-right depth-first
\* order, each with the node list given to the run, and one call has ended
\* (callback and post-effect included) before the next starts; a run that ends
\* without error has called every leaf.
C8_InOrder ==
  \A r \in Runs :
    (call[r].entry = "doActionExp" /\ IsArray(call[r].exp) /\ Plain(call[r].exp)) =>
      LET leaves == Flatten(call[r].exp)
          inv == InvokeSeq(r)
          tr == trace[r]
      IN /\ Len(inv) <= Len(leaves)
         /\ \A k \in 1..Len(inv) :
              /\ inv[k].name = leaves[k].name
              /\ inv[k].args = leaves[k].args
              /\ inv[k].nodes = call[r].nodes
              /\ inv[k].mode = ExpectedMode(r)
         /\ \A p, q \in Invokes(r) :
              p < q => (ReturnOf(tr, p) # 0 /\ ReturnOf(tr, p) < q)
         /\ \A c \in Positions(tr, {"callback", "reload", "render"}) :
              \E p \in Invokes(r) : p < c /\ (ReturnOf(tr, p) = 0 \/ c < ReturnOf(tr, p))
         /\ (Done(r) /\ result[r] = Ok) => Len(inv) = Len(leaves)

\* [open, [delete, copyFile], toggleHidden] has ended without error after its
\* four callbacks
C8_Witness ==
  /\ Done(1) /\ result[1] = Ok
  /\ call[1].exp = List(<<open, List(<<delete, copyFile>>), toggleHidden>>)
  /\ call[1].nodes = <<1, 2>>
  /\ Count(trace[1], "callback") = 4

\* ----------------------------------------------------------------- C9
DoActionEvents ==
  { "invoke", "requestRenderNodes", "callback", "settled", "reload", "render",
    "postSettled", "return" }

\* C9: doActionExp(leaf, nodes, {mode}) does what doAction(leaf.name, nodes,
\* leaf.args, mode) does and nothing else: its one and only effect is one call
\* of doAction with exactly these arguments, its outcome is the outcome of that
\* call, and the mutex is neither asked for nor released, whatever the name of
\* the leaf (the marker's and the routers' included).
C9_LeafIsDoAction ==
  \A r \in Runs :
    (call[r].entry = "doActionExp" /\ ~IsArray(call[r].exp)) =>
      LET tr == trace[r]
          leaf == call[r].exp
      IN /\ \A k \in 1..Len(mutex) : mutex[k] # r
         /\ \A p \in 1..Len(tr) : tr[p].ev \in DoActionEvents
         /\ Count(tr, "invoke") <= 1
         /\ tr # <<>> =>
              /\ tr[1].ev = "invoke"
              /\ tr[1].name = leaf.name /\ tr[1].nodes = call[r].nodes
              /\ tr[1].args = leaf.args /\ tr[1].mode = ExpectedMode(r)
         /\ Done(r) =>
              /\ tr # <<>> /\ tr[Len(tr)].ev = "return"
              /\ result[r] = IF tr[Len(tr)].err = NoError THEN Ok ELSE tr[Len(tr)].err

\* doActionExp of the leaf open with mode 'v' has ended as its doAction did,
\* the callback called in mode 'v'
C9_Witness ==
  /\ Done(1) /\ call[1].entry = "doActionExp" /\ call[1].exp = open
  /\ call[1].mode = "v"
  /\ \E c \in Positions(trace[1], {"callback"}) :
       trace[1][c].mode = "v" /\ trace[1][c].args = <<"split">>

\* doActionExp of the marker as a single leaf has ended: doAction was called
\* with the marker's name and the mutex was left alone
C9_WitnessMarker ==
  /\ Done(1) /\ call[1].entry = "doActionExp" /\ call[1].exp = wait
  /\ Count(trace[1], "invoke") = 1 /\ Count(trace[1], "acquire") = 0

\* ----------------------------------------------------------------- C10
Occurrences(q, r) == Cardinality({ k \in 1..Len(q) : q[k] = r })

\* C10: a run asks for the mutex at most once, at a marker that is an element
\* of its top-level list, and only while it does not hold it; every further
\* marker, in the same list, in a nested list or in a branch, is passed over.
\* So a run never waits for a mutex it holds: with no other run about, the
\* mutex it waits for is granted.
C10_NoSelfWait ==
  \A r \in Runs :
    /\ Occurrences(mutex, r) <= 1
    /\ Count(trace[r], "acquire") <= 1
    /\ \A p \in Positions(trace[r], {"acquire"}) : trace[r][p].depth = 1
    /\ (Running(r) /\ Top(r).pc = "await71") =>
         /\ Depth(r) = 1 /\ ~Top(r).isSubAction
         /\ Top(r).i \in MarkersOf(Top(r).exp)
         /\ Count(trace[r], "acquire") = 0
         /\ (\A o \in Runs \ {r} : status[o] # "running") => Head(mutex) = r

\* [wait, [wait, open], wait, ...]: the run holds the mutex, got once, and is
\* past a nested marker and past the second marker of its own list
C10_Witness ==
  /\ Running(1) /\ Depth(1) = 1
  /\ call[1].exp = List(<<wait, List(<<wait, open>>), wait, delete>>)
  /\ Top(1).i = 3 /\ Top(1).waitRelease
  /\ Count(trace[1], "acquire") = 1 /\ Count(trace[1], "callback") = 1
  /\ mutex = <<1>>

\* ----------------------------------------------------------------- C11
\* run r was started with an expression without marker
FreeRun(r) == call[r].entry = "doActionExp" /\ MarkerFree(call[r].exp)

\* run r holds the mutex and is in a callback
HoldsInCallback(r) ==
  /\ Running(r) /\ Top(r).fn = "doAction" /\ Top(r).pc = "callback"
  /\ mutex # <<>> /\ Head(mutex) = r

\* C11: a top-level run whose expression has no marker never asks for the
\* mutex and never waits for it; once started it returns, provided its own
\* callbacks and post-effects settle, whatever the other runs do: also while
\* another run holds the mutex for ever in a callback that does not settle.
C11_NoBarrierWait ==
  /\ [](\A r \in Runs : FreeRun(r) =>
          /\ Occurrences(mutex, r) = 0
          /\ Count(trace[r], "acquire") = 0
          /\ \A k \in 1..Depth(r) : stack[r][k].pc # "await71")
  /\ \A r \in Runs : (status[r] = "running" /\ FreeRun(r)) ~> Done(r)

\* a run without marker has returned after its three callbacks while another
\* run holds the mutex, inside the callback of its delete
C11_Witness ==
  \E r, o \in Runs :
    /\ r # o /\ HoldsInCallback(o)
    /\ Done(r) /\ FreeRun(r) /\ IsArray(call[r].exp)
    /\ Count(trace[r], "callback") = 3

\* ----------------------------------------------------------------- C12
\* the name is in neither table
Unregistered(name) == name \notin (DOMAIN LocalActions \cup DOMAIN GlobalActions)

\* C12: doAction with a name that is in neither the local nor the global table
\* returns at once and without error: no callback, no re-render request, no
\* reload and no render, the selection as it was; called directly, the caller
\* gets a normal return.  In a list without marker and router, the leaf after
\* an unresolved leaf is called as well.
C12_UnresolvedNoOp ==
  \A r \in Runs : \A p \in Invokes(r) :
    LET tr == trace[r]
        inv == InvokeSeq(r)
        k == Cardinality({ q \in Invokes(r) : q <= p })
    IN Unregistered(tr[p].name) =>
         /\ p + 1 <= Len(tr)
         /\ tr[p + 1].ev = "return" /\ tr[p + 1].err = NoError
         /\ tr[p + 1].sel = tr[p].sel
         /\ tr[p].sel = selectedNodes[call[r].source] \/ Len(tr) > p + 1
         /\ (call[r].entry = "doAction" /\ Done(r)) =>
              (result[r] = Ok /\ Len(tr) = 2)
         /\ (call[r].entry = "doActionExp" /\ IsArray(call[r].exp) /\ Plain(call[r].exp)
               /\ Done(r) /\ k < Len(Flatten(call[r].exp))) =>
              Len(inv) >= k + 1

\* [copyFile, unknown, open] has ended without error: doAction was called for
\* the three leaves, the callbacks of copyFile and open ran
C12_Witness ==
  /\ Done(1) /\ result[1] = Ok
  /\ call[1].exp = List(<<copyFile, unknown, open>>)
  /\ Count(trace[1], "invoke") = 3 /\ Count(trace[1], "callback") = 2
  /\ \E p \in Invokes(1) : Unregistered(trace[1][p].name)

\* doAction("unknown", ...) called directly has returned normally, with 1 and
\* 2 still selected
C12_WitnessDirect ==
  /\ Done(1) /\ result[1] = Ok
  /\ call[1].entry = "doAction" /\ call[1].name = "unknown"
  /\ call[1].source = "file" /\ selectedNodes["file"] = <<1, 2>>

\* ----------------------------------------------------------------- C13
\* the action called at p declares select: false or no select option
SelectFalse(tr, p) ==
  /\ Resolved(tr[p].name)
  /\ registeredAction(tr[p].name).select \in {"false", "undefined"}

\* C13: for a non-empty node list and an action whose select option is false
\* or absent, the callback gets a list of exactly one node, the first of the
\* given nodes, whatever the other given nodes and whatever the selection.
C13_FirstOnly ==
  \A r \in Runs : \A p \in Invokes(r) :
    LET tr == trace[r]
        c == CallbackOf(tr, p)
    IN (SelectFalse(tr, p) /\ tr[p].nodes # <<>>) =>
         /\ c # 0
         /\ tr[c].nodes = << tr[p].nodes[1] >>

\* doAction("open", [2, 1]) with 1 and 2 selected: the callback got 2 alone
C13_Witness ==
  /\ Done(1) /\ call[1].entry = "doAction" /\ call[1].name = "open"
  /\ call[1].source = "file" /\ call[1].nodes = <<2, 1>>
  /\ trace[1][1].sel = <<1, 2>>
  /\ \E c \in Positions(trace[1], {"callback"}) : trace[1][c].nodes = <<2>>

\* the same for refresh, which declares no select option
C13_WitnessAbsent ==
  /\ Done(1) /\ call[1].entry = "doAction" /\ call[1].name = "refresh"
  /\ call[1].source = "file" /\ call[1].nodes = <<2, 1>>
  /\ trace[1][1].sel = <<1>>
  /\ \E c \in Positions(trace[1], {"callback"}) : trace[1][c].nodes = <<2>>

\* ----------------------------------------------------------------- C14
\* the action with these options was executed by the call of doAction at p:
\* its callback got the nodes its select option asks for and the post-effect
\* that followed is the one it declares
Executed(tr, p, options) ==
  LET c == CallbackOf(tr, p)
      posts == { tr[q].ev : q \in { x \in Span(tr, p) : tr[x].ev \in {"reload", "render"} } }
      want == PostEffect(options)
  IN /\ c # 0
     /\ tr[c].nodes = CallbackNodes(SelectOption(options), tr[p].nodes, tr[p].sel)
     /\ posts \subseteq {want}
     /\ (ReturnOf(tr, p) # 0 /\ want # "none") => posts = {want}

\* C14: a name in both tables resolves to the local action, in
\* registeredAction, in the action doAction executes and in registeredActions();
\* a name in the global table alone resolves to the global action.
C14_LocalFirst ==
  /\ \A n \in DOMAIN LocalActions :
       registeredAction(n) = LocalActions[n] /\ registeredActions[n] = LocalActions[n]
  /\ \A n \in DOMAIN GlobalActions \ DOMAIN LocalActions :
       registeredAction(n) = GlobalActions[n] /\ registeredActions[n] = GlobalActions[n]
  /\ \A r \in Runs : \A p \in Invokes(r) :
       LET n == trace[r][p].name
       IN /\ n \in DOMAIN LocalActions => Executed(trace[r], p, LocalActions[n])
          /\ n \in DOMAIN GlobalActions \ DOMAIN LocalActions =>
               Executed(trace[r], p, GlobalActions[n])

\* open is in both tables, locally without select and without post-effect,
\* globally with select 'visual' and render: doAction("open", [1, 2]) has
\* returned, the callback got 1 alone and nothing was rendered
C14_Witness ==
  /\ "open" \in DOMAIN LocalActions \cap DOMAIN GlobalActions
  /\ LocalActions["open"] # GlobalActions["open"]
  /\ Done(1) /\ call[1].entry = "doAction" /\ call[1].name = "open"
  /\ call[1].nodes = <<1, 2>>
  /\ \E c \in Positions(trace[1], {"callback"}) : trace[1][c].nodes = <<1>>
  /\ Count(trace[1], "render") = 0

\* quit is in the global table alone: its callback ran and the view was rendered
C14_WitnessGlobal ==
  /\ "quit" \in DOMAIN GlobalActions \ DOMAIN LocalActions
  /\ Done(1) /\ call[1].entry = "doAction" /\ call[1].name = "quit"
  /\ Count(trace[1], "callback") = 1 /\ Count(trace[1], "render") = 1

\* ----------------------------------------------------------------- C15
\* the branches a run entered although the router had no such element after it
MissingBranches(r) ==
  { p \in Positions(trace[r], {"true", "false"}) : trace[r][p].name = "undefined" }

\* C15: when a router is followed by fewer than two elements and a non-empty
\* group of nodes goes to a branch that does not exist, the missing branch is
\* not run as an empty branch: nothing is executed for it or after it (only
\* the mutex is released), and the run ends with a TypeError, not normally.
C15_MissingBranchRaises ==
  \A r \in Runs : \A p \in MissingBranches(r) :
    LET tr == trace[r] IN
    /\ tr[p].nodes # <<>>
    /\ \A q \in (p + 1)..Len(tr) : tr[q].ev = "release"
    /\ status[r] = "running" =>
         (stack[r][Depth(r)].exp = Undefined => stack[r][Depth(r)].fn = "doActionExp")
    /\ Done(r) => result[r] = TypeError

\* [expandable?, open] on a directory and a file: open ran for the directory,
\* the false branch does not exist and the run ended with a TypeError
C15_Witness ==
  /\ Done(1) /\ result[1] = TypeError
  /\ call[1].exp = List(<<expandable, open>>) /\ call[1].nodes = <<1, 2>>
  /\ Count(trace[1], "callback") = 1
  /\ \E p \in MissingBranches(1) : trace[1][p].ev = "false" /\ trace[1][p].nodes = <<2>>

\* ----------------------------------------------------------------- C16
\* the element at index k of the list e is a router
IsRouter(e, k) ==
  /\ ~IsArray(At(e, k)) /\ At(e, k) # Undefined
  /\ At(e, k).name # waitActionName /\ At(e, k).name \in RuleNames

\* what the loop of a list frame f is doing, with g the invocation it awaits
\* (g = f when that invocation has ended with an error): ordinary elements are taken from the indices
\* left after every router has taken the two elements after it, and are run
\* with the nodes of the list; the two elements after a router are run as its
\* branches only
SlotsOf(f, g) ==
  /\ f.pc \in {"run", "await71"} =>
       (f.i < Len(f.exp.els) => f.i \in Visited(f.exp, 0))
  /\ f.pc \in {"await63", "await92"} =>
       /\ f.i \in Visited(f.exp, 0) /\ ~IsRouter(f.exp, f.i)
       /\ g # f => (g.exp = At(f.exp, f.i) /\ g.nodes = f.nodes)
  /\ f.pc \in {"await86", "line88", "await89"} =>
       /\ (f.i - 2) \in Visited(f.exp, 0) /\ IsRouter(f.exp, f.i - 2)
  /\ (f.pc = "await86" /\ g # f) => (g.exp = At(f.exp, f.i - 1) /\ g.nodes = f.trueNodes)
  /\ (f.pc = "await89" /\ g # f) => (g.exp = At(f.exp, f.i) /\ g.nodes = f.falseNodes)

\* after the router evaluated at position p of the history, each of its
\* branches is entered at most once
BranchesOnce(tr, p) ==
  LET same == { q \in Positions(tr, {"condition"}) : q > p /\ tr[q].depth = tr[p].depth }
      end == IF same = {} THEN Len(tr) + 1 ELSE CHOOSE x \in same : \A y \in same : x <= y
      entered(ev) == { q \in Positions(tr, {ev}) :
                         q > p /\ q < end /\ tr[q].depth = tr[p].depth }
  IN Cardinality(entered("true")) <= 1 /\ Cardinality(entered("false")) <= 1

\* C16: a router takes three elements of its list: the two after it are run
\* as its branches only, each at most once and with its group of nodes, never
\* as elements of the list, also when a branch was skipped for an empty group;
\* the element after them is the next the loop runs, with the whole node list.
C16_ThreeSlots ==
  \A r \in Runs :
    /\ \A k \in 1..Depth(r) :
         LET f == stack[r][k]
             g == IF k < Depth(r) THEN stack[r][k + 1] ELSE f
         IN (f.fn = "doActionExp" /\ IsArray(f.exp)) => SlotsOf(f, g)
    /\ \A p \in Positions(trace[r], {"condition"}) : BranchesOnce(trace[r], p)

\* [expandable?, [open, copyFile], [delete], quit] on two directories: the
\* false branch was skipped, delete was never called, and quit, the element
\* after the two branches, runs with both nodes
C16_Witness ==
  /\ call[1].exp = List(<<expandable, List(<<open, copyFile>>), List(<<delete>>), quit>>)
  /\ call[1].nodes = <<1, 1>>
  /\ Running(1) /\ Top(1).fn = "doAction" /\ Top(1).name = "quit" /\ Top(1).pc = "callback"
  /\ Top(1).nodes = <<1, 1>> /\ stack[1][1].i = 3
  /\ Count(trace[1], "true") = 1 /\ Count(trace[1], "false") = 0
  /\ \A p \in Invokes(1) : trace[1][p].name # "delete"

\* ----------------------------------------------------------------- C17
RECURSIVE IsSubSeq(_, _)
\* s is t with some elements left out
IsSubSeq(s, t) ==
  IF s = <<>> THEN TRUE
  ELSE IF t = <<>> THEN FALSE
  ELSE IF Head(s) = Head(t) THEN IsSubSeq(Tail(s), Tail(t))
  ELSE IsSubSeq(s, Tail(t))

\* the leaves doAction was called for by run r, in order
InvokedLeaves(r) ==
  [ k \in 1..Len(InvokeSeq(r)) |-> Leaf(InvokeSeq(r)[k].name, InvokeSeq(r)[k].args) ]

\* what a run still does after a callback failed: the post-effect of the
\* failed action, the returns and the release of the mutex
AfterFailure == {"reload", "render", "postSettled", "return", "release"}

\* the part of C17 that does not depend on the error observed: after the
\* failure of a callback no other action is called and no router or marker is
\* evaluated; every call of doAction calls its callback at most once, and the
\* calls follow the leaves of the expression from left to right, none twice
C17_Stops(r) ==
  LET tr == trace[r] IN
  /\ \A p \in Failures(r) : \A q \in (p + 1)..Len(tr) : tr[q].ev \in AfterFailure
  /\ Cardinality(Failures(r)) <= 1
  /\ \A p \in Invokes(r) :
       Cardinality({ q \in Span(tr, p) : tr[q].ev = "callback" }) <= 1
  /\ call[r].entry = "doActionExp" => IsSubSeq(InvokedLeaves(r), Flatten(call[r].exp))

WaitsForMutex(r) == Running(r) /\ Top(r).fn = "doActionExp" /\ Top(r).pc = "await71"

\* C18: when every step that can be taken is taken in the end (callbacks and
\* post-effects settle, the mutex serves its queue in order), every run that
\* waits for the mutex at a marker gets it, every started run returns, and the
\* mutex is not held or asked for by a run that has returned.
C18_EventuallyReturns ==
  /\ \A r \in Runs : WaitsForMutex(r) ~> (Count(trace[r], "acquire") = 1)
  /\ \A r \in Runs : (status[r] = "running") ~> Done(r)
  /\ [](\A r \in Runs : Done(r) => Occurrences(mutex, r) = 0)

\* every run has got the mutex and has returned, one of them with the failure
\* of a callback it called while it held the mutex; the mutex is free
C18_Witness ==
  /\ NumRuns >= 2
  /\ \A r \in Runs : Done(r) /\ Count(trace[r], "acquire") = 1
                        /\ Count(trace[r], "release") = 1
  /\ \E r \in Runs : result[r] = CallbackError("delete")
  /\ mutex = <<>>

\* ----------------------------------------------------------------- C19
\* run r is inside a callback
InCallback(r) == Running(r) /\ Top(r).fn = "doAction" /\ Top(r).pc = "callback"

\* the call of the callback run r is inside, as a position of its history
CurrentCallback(r) ==
  CHOOSE c \in Positions(trace[r], {"callback"}) :
    \A c2 \in Positions(trace[r], {"callback"}) : c2 <= c

\* node n agrees with every branch the run is inside: it passes the predicate
\* of the router of every true branch and fails that of every false branch
AgreesWithBranches(r, n) ==
  \A k \in 1..(Depth(r) - 1) :
    LET f == stack[r][k]
        c == At(f.exp, f.i - 2)
    IN /\ f.pc = "await86" => Passes(c, n)
       /\ f.pc = "await89" => ~Passes(c, n)

\* C19 as stated: no callback called inside the true branch of a router gets a
\* node that fails the router's predicate and none called inside the false
\* branch gets a node that passes it, whatever the select option of the action
\* and whatever the selection.
C19_AsStated ==
  \A r \in Runs :
    InCallback(r) =>
      \A n \in Range(trace[r][CurrentCallback(r)].nodes) : AgreesWithBranches(r, n)

\* C19 amended: the nodes doAction is called with inside a branch agree with
\* the branch, and so do the nodes the callback of an action with select
\* false, absent or 'visual' gets; the callback of an action with select true
\* or 'keep' gets, besides, the nodes selected before the call, which were
\* never routed: a node that disagrees with the branch comes from there only.
C19_GivenNodesRouted ==
  \A r \in Runs :
    InCallback(r) =>
      LET tr == trace[r]
          c == CurrentCallback(r)
          p == CHOOSE x \in Invokes(r) : x < c /\ \A y \in Invokes(r) : y < c => y <= x
          select == SelectOption(registeredAction(tr[p].name))
      IN /\ \A n \in Range(tr[p].nodes) : AgreesWithBranches(r, n)
         /\ \A n \in Range(tr[c].nodes) :
              \/ AgreesWithBranches(r, n)
              \/ select \in {"true", "keep"} /\ n \in Range(tr[p].sel)

\* [expandable?, delete, open] on the directory 1 with the file 2 selected:
\* the callback of delete, called in the true branch, has got 1 and 2
C19_Witness ==
  /\ call[1].exp = List(<<expandable, delete, open>>)
  /\ call[1].nodes = <<1>> /\ call[1].source = "file"
  /\ InCallback(1) /\ Top(1).name = "delete" /\ stack[1][1].pc = "await86"
  /\ trace[1][CurrentCallback(1)].nodes = <<1, 2>>
  /\ ~Passes(expandable, 2)

\* ----------------------------------------------------------------- C20
\* the (source, directory) pairs that are pending
Pending == reloadDebounceArgs.sources \X reloadDebounceArgs.directories

\* C20 as stated: reloadDebounce loses no request: every source and directory
\* added to the pending sets is passed to a reload before it is cleared from
\* them, also when it was added while an earlier call awaited its reload.
C20_AsStated == requested \subseteq (Pending \cup reloaded)

\* a call added a directory while an earlier call awaited its reload; that
\* reload has ended and cleared the pending sets, the directory was passed to
\* no reload and the call that added it still awaits the checker
C20_Witness ==
  /\ \E c \in Calls : gitPc[c] = "await413" /\ debounce = c
  /\ \E c \in Calls : gitPc[c] = "done"
  /\ reloadDebounceArgs = Cleared
  /\ requested \ reloaded # {}

====
